---- MODULE Spec2Model ----
(***************************************************************************)
(* SilkRoute declaration helper: declaration templates (api/admin.py and   *)
(* the template seed scripts), the processing dispatcher                   *)
(* (services/async_ocr_service.py) and the OCR workers (workers/).         *)
(*                                                                         *)
(* The committed content of the database is the state.  A handler is cut   *)
(* into one step per db.commit(): between two commits of one handler the   *)
(* other processes (API workers, Celery workers, seed scripts) can run.    *)
(***************************************************************************)
EXTENDS Integers, Sequences, FiniteSets, TLC

(***************************************************************************)
(* Bounds                                                                  *)
(***************************************************************************)
MaxTemplates == 2
MaxRuns == 3
MaxJobs == 2
MaxCalls == 3
MaxTasks == 2
MaxFields == 2

(***************************************************************************)
(* Python None for an optional argument or a nullable column               *)
(***************************************************************************)
None == "None"

VARIABLES
    templates,       \* declaration_templates rows: set of [id, name, is_active]
    nextTemplateId,  \* the serial primary key of declaration_templates
    seedPc,          \* per seed script: 0, the id it has just committed, or
                     \* minus that id once the other templates are deactivated
    tplLast,         \* the last template operation that returned (cascaded: the
                     \* number of field rows it deleted with the template)
    tplPrevSet,      \* id activated by the operation before tplLast (0: none)
    fields,          \* template_fields rows: set of [id, template_id, field_name, extraction_rules]
    nextFieldId,     \* the serial primary key of template_fields
    documents,       \* the documents row: [status, extracted_data]
    file,            \* the stored file of the document: its size, or FileMissing
    jobs,            \* tasks the dispatcher sent to the broker, by job handle
    runs,            \* deliveries of process_document_with_template / engine runs
    calls,           \* number of dispatcher calls made (bounded)
    lastCall,        \* what the last process_document_async call did and returned
    lastStatus,      \* what the last get_processing_status call returned
    queueing,        \* the dispatcher call that has sent its task and not yet
                     \* stored the job handle (job 0: no such call)
    tasks,           \* process_document_ocr tasks, with their retry counters
    shipments,       \* the shipments row of those tasks: [status, extracted_data]
    text,            \* the OCR text an extraction is run on: a sequence of words
    report           \* what the last extraction call returned, and what the
                     \* same call returned when it was made again

tplVars == <<templates, nextTemplateId, seedPc, tplLast, tplPrevSet, fields, nextFieldId>>
docVars == <<documents, file, jobs, runs, calls, lastCall, lastStatus, queueing>>
taskVars == <<tasks, shipments>>
extractVars == <<text, report>>
vars == <<templates, nextTemplateId, seedPc, tplLast, tplPrevSet, fields, nextFieldId,
          documents, file, jobs, runs, calls, lastCall, lastStatus, queueing,
          tasks, shipments, text, report>>

(***************************************************************************)
(* Declaration templates                                                   *)
(***************************************************************************)
NameRussian == "Russian Customs Declaration 2025"
NameExact == "exact copy"
NameImproved == "improved"
Names == {NameRussian, NameExact, NameImproved}
SeedScripts == {"russian", "exact", "improved"}

SeedName(s) ==
    IF s = "russian" THEN NameRussian ELSE IF s = "exact" THEN NameExact ELSE NameImproved

\* A template_fields row; extraction_rules is the JSON column.
TemplateField(id, template_id, field_name, extraction_rules) ==
    [id |-> id, template_id |-> template_id, field_name |-> field_name,
     extraction_rules |-> extraction_rules]

\* extraction_rules: {"type": type, "pattern" | "keyword": arg}
Rule(type, arg) == [type |-> type, arg |-> arg]

\* extraction_rules: dict = None, the argument left out of the request
Unset == Rule("unset", None)

\* The first field each seed script defines.  init_russian_template.py gives
\* its fields a rule with a type; the two scripts under templates/ store
\* {"section", "description", "keywords", "required"}: a rule without "type".
SeedField(s, id, template_id) ==
    IF s = "russian"
    THEN TemplateField(id, template_id, "declaration_number", Rule("regex", "DECLARATION No ([A-Z0-9]+)"))
    ELSE IF s = "exact"
    THEN TemplateField(id, template_id, "declaration_type", Rule(None, None))
    ELSE TemplateField(id, template_id, "declaration_number", Rule(None, None))

DeclarationTemplate(id, name, is_active) ==
    [id |-> id, name |-> name, is_active |-> is_active]

\* db.query(DeclarationTemplate).filter(id != keep).update({is_active: False})
\* keep = 0 is the unfiltered statement.
DeactivateOthers(rows, keep) ==
    {IF t.id = keep THEN t ELSE [t EXCEPT !.is_active = FALSE] : t \in rows}

ActiveTemplates == {t \in templates : t.is_active}

NoTplOp == [op |-> "none", id |-> 0, is_active |-> None, ok |-> FALSE, cascaded |-> 0]

\* The id the last operation activated: a successful update_template(is_active=True).
Activated(l) ==
    IF l.op = "update_template" /\ l.ok /\ l.is_active = "True" THEN l.id ELSE 0

TplInit ==
    /\ templates = {}
    /\ nextTemplateId = 1
    /\ seedPc = [s \in SeedScripts |-> 0]
    /\ tplLast = NoTplOp
    /\ tplPrevSet = 0
    /\ fields = {}
    /\ nextFieldId = 1

\* POST /templates/
create_template(name, is_active) ==
    /\ nextTemplateId <= MaxTemplates
    /\ templates' =
         (IF is_active THEN DeactivateOthers(templates, 0) ELSE templates)
           \cup {DeclarationTemplate(nextTemplateId, name, is_active)}
    /\ nextTemplateId' = nextTemplateId + 1
    /\ tplPrevSet' = Activated(tplLast)
    /\ tplLast' = [op |-> "create_template", id |-> nextTemplateId,
                   is_active |-> IF is_active THEN "True" ELSE "False", ok |-> TRUE, cascaded |-> 0]
    /\ UNCHANGED <<seedPc, fields, nextFieldId, docVars, taskVars, extractVars>>

\* update_template without the bulk deactivation of line 150
UpdatedTemplatesKeepOthers(rows, template_id, name, is_active) ==
    {IF t.id # template_id THEN t
     ELSE [t EXCEPT !.name = IF name = None THEN t.name ELSE name,
                    !.is_active = IF is_active = None THEN t.is_active
                                  ELSE is_active = "True"]
     : t \in rows}

\* The rows after update_template's statements for an existing template.
UpdatedTemplates(rows, template_id, name, is_active) ==
    LET bulk == IF is_active = "True" THEN DeactivateOthers(rows, 0) ELSE rows
    IN  {IF t.id # template_id THEN t
         ELSE [t EXCEPT !.name = IF name = None THEN t.name ELSE name,
                        !.is_active = IF is_active = None THEN t.is_active
                                      ELSE is_active = "True"]
         : t \in bulk}

\* db.query(DeclarationTemplate).filter(id == template_id).first() found a row
\* (the mutant beside it: the 404 check never fires)
TemplateFoundAlways(rows, template_id) == TRUE

TemplateFound(rows, template_id) == \E t \in rows : t.id = template_id

\* relationship("TemplateField", cascade="all, delete-orphan") without the cascade
DeleteCascadeNone(rows, template_id) == rows

\* db.delete(template): the ORM deletes the template's fields with it
DeleteCascade(rows, template_id) == {f \in rows : f.template_id # template_id}

\* PUT /templates/{template_id}
update_template(template_id, name, is_active) ==
    LET found == TemplateFound(templates, template_id)
    IN  /\ templates' = IF found
                        THEN UpdatedTemplates(templates, template_id, name, is_active)
                        ELSE templates
        /\ tplPrevSet' = Activated(tplLast)
        /\ tplLast' = [op |-> "update_template", id |-> template_id,
                       is_active |-> is_active, ok |-> found, cascaded |-> 0]
        /\ UNCHANGED <<nextTemplateId, seedPc, fields, nextFieldId, docVars, taskVars, extractVars>>

\* DELETE /templates/{template_id}
delete_template(template_id) ==
    LET found == TemplateFound(templates, template_id)
    IN  /\ templates' = {t \in templates : t.id # template_id}
        /\ fields' = IF found THEN DeleteCascade(fields, template_id) ELSE fields
        /\ tplPrevSet' = Activated(tplLast)
        /\ tplLast' = [op |-> "delete_template", id |-> template_id,
                       is_active |-> None, ok |-> found,
                       cascaded |-> Cardinality({f \in fields : f.template_id = template_id})]
        /\ UNCHANGED <<nextTemplateId, seedPc, nextFieldId, docVars, taskVars, extractVars>>

\* A seed script (create_russian_template, create_exact_russian_declaration,
\* create_improved_russian_template) up to its first commit: the new template
\* is committed active, no other template is touched.
SeedAdd(s) ==
    LET exists == \E t \in templates : t.name = SeedName(s)
    IN  /\ seedPc[s] = 0
        /\ ~exists => nextTemplateId <= MaxTemplates
        /\ templates' = IF exists THEN templates
                        ELSE templates \cup
                               {DeclarationTemplate(nextTemplateId, SeedName(s), TRUE)}
        /\ nextTemplateId' = IF exists THEN nextTemplateId ELSE nextTemplateId + 1
        /\ seedPc' = IF exists THEN seedPc ELSE [seedPc EXCEPT ![s] = nextTemplateId]
        /\ tplPrevSet' = Activated(tplLast)
        /\ tplLast' = [op |-> "seed_add",
                       id |-> IF exists THEN 0 ELSE nextTemplateId,
                       is_active |-> "True", ok |-> ~exists, cascaded |-> 0]
        /\ UNCHANGED <<fields, nextFieldId, docVars, taskVars, extractVars>>

\* The second commit of the two scripts under templates/: every other
\* template is deactivated.  seedPc < 0: the fields are still to be committed.
SeedDeactivate(s) ==
    /\ s # "russian"
    /\ seedPc[s] > 0
    /\ templates' = DeactivateOthers(templates, seedPc[s])
    /\ seedPc' = [seedPc EXCEPT ![s] = 0 - seedPc[s]]
    /\ tplPrevSet' = Activated(tplLast)
    /\ tplLast' = [op |-> "seed_deactivate", id |-> seedPc[s],
                   is_active |-> "True", ok |-> TRUE, cascaded |-> 0]
    /\ UNCHANGED <<nextTemplateId, fields, nextFieldId, docVars, taskVars, extractVars>>

\* The last commit of a seed script: the fields of the template it created.
\* The foreign key template_fields.template_id rejects the insert when the
\* template has been deleted in between (IntegrityError, nothing is stored).
SeedFields(s) ==
    LET template_id == IF s = "russian" THEN seedPc[s] ELSE 0 - seedPc[s]
        found == TemplateFound(templates, template_id)
    IN  /\ IF s = "russian" THEN seedPc[s] > 0 ELSE seedPc[s] < 0
        /\ found => nextFieldId <= MaxFields
        /\ fields' = IF found
                      THEN fields \cup {SeedField(s, nextFieldId, template_id)}
                      ELSE fields
        /\ nextFieldId' = IF found THEN nextFieldId + 1 ELSE nextFieldId
        /\ seedPc' = [seedPc EXCEPT ![s] = 0]
        /\ tplPrevSet' = Activated(tplLast)
        /\ tplLast' = [op |-> "seed_fields", id |-> template_id,
                       is_active |-> None, ok |-> found, cascaded |-> 0]
        /\ UNCHANGED <<templates, nextTemplateId, docVars, taskVars, extractVars>>

\* POST /templates/{template_id}/fields
create_template_field(template_id, field_name, extraction_rules) ==
    LET found == TemplateFound(templates, template_id)
    IN  /\ found => nextFieldId <= MaxFields
        /\ fields' = IF found
                      THEN fields \cup {TemplateField(nextFieldId, template_id,
                                                      field_name, extraction_rules)}
                      ELSE fields
        /\ nextFieldId' = IF found THEN nextFieldId + 1 ELSE nextFieldId
        /\ tplPrevSet' = Activated(tplLast)
        /\ tplLast' = [op |-> "create_template_field", id |-> template_id,
                       is_active |-> None, ok |-> found, cascaded |-> 0]
        /\ UNCHANGED <<templates, nextTemplateId, seedPc, docVars, taskVars, extractVars>>

\* PUT /fields/{field_id}
update_template_field(field_id, field_name, extraction_rules) ==
    LET found == \E f \in fields : f.id = field_id
    IN  /\ fields' =
             {IF f.id # field_id THEN f
              ELSE [f EXCEPT !.field_name = IF field_name = None THEN f.field_name
                                            ELSE field_name,
                             !.extraction_rules = IF extraction_rules = Unset
                                                  THEN f.extraction_rules
                                                  ELSE extraction_rules]
              : f \in fields}
        /\ tplPrevSet' = Activated(tplLast)
        /\ tplLast' = [op |-> "update_template_field", id |-> field_id,
                       is_active |-> None, ok |-> found, cascaded |-> 0]
        /\ UNCHANGED <<templates, nextTemplateId, seedPc, nextFieldId, docVars, taskVars, extractVars>>

\* DELETE /fields/{field_id}
delete_template_field(field_id) ==
    LET found == \E f \in fields : f.id = field_id
    IN  /\ fields' = {f \in fields : f.id # field_id}
        /\ tplPrevSet' = Activated(tplLast)
        /\ tplLast' = [op |-> "delete_template_field", id |-> field_id,
                       is_active |-> None, ok |-> found, cascaded |-> 0]
        /\ UNCHANGED <<templates, nextTemplateId, seedPc, nextFieldId, docVars, taskVars, extractVars>>

create_russian_template ==
    SeedAdd("russian") \/ SeedFields("russian")

create_exact_russian_declaration ==
    SeedAdd("exact") \/ SeedDeactivate("exact") \/ SeedFields("exact")

create_improved_russian_template ==
    SeedAdd("improved") \/ SeedDeactivate("improved") \/ SeedFields("improved")

(***************************************************************************)
(* Documents: models/document.py                                           *)
(***************************************************************************)
\* class DocumentStatus(str, enum.Enum): member name -> stored value
DocumentStatus ==
    [UPLOADED |-> "uploaded", PROCESSING |-> "processing",
     COMPLETED |-> "completed", ERROR |-> "error"]

\* DocumentStatus.<member>: an enum without that member raises AttributeError.
HasMember(member) == member \in DOMAIN DocumentStatus

StatusValues == {DocumentStatus[m] : m \in DOMAIN DocumentStatus}

\* Values of the JSON column extracted_data.  kind tells the shape, src/by
\* tell which call, job or run produced it, failed_at whether the value
\* carries a failure timestamp.
Data(kind, src, by, failed_at) ==
    [kind |-> kind, src |-> src, by |-> by, failed_at |-> failed_at]

NoData == Data("None", "none", 0, FALSE)
\* the dict EnhancedOCRService.process_document returns ('success': True)
OcrResult(call) == Data("result", "call", call, FALSE)
\* {"error": str(e), "failed_at": utcnow}
ErrorDetail(src, by) == Data("error", src, by, TRUE)
\* {"job_id": task.id, "status": "queued", "queued_at": utcnow}
JobHandle(job) == Data("job_id", "job", job, FALSE)
\* task_result.result of a finished job
JobResult(job) == Data("result", "job", job, FALSE)
\* the worker's {"raw_text", "document_type", "extraction_timestamp", "extracted_fields"}
WorkerReport(run) == Data("result", "run", run, FALSE)
\* the worker's {"error", "raw_text", "processing_failed"}; the engine's {"error"}
WorkerError(run) == Data("error", "run", run, FALSE)

Row(status, extracted_data) == [status |-> status, extracted_data |-> extracted_data]

(***************************************************************************)
(* SQLAlchemy sessions.  An attribute assignment is pending in the session *)
(* that loaded the object; commit() of a session writes the pending        *)
(* changes of that session only, and close() discards what is pending.     *)
(***************************************************************************)
\* commit() writing what is pending in any session
CommitAnySession(committed, pending, owner, session) == pending

\* db.commit() of session on an object that belongs to the session owner
Commit(committed, pending, owner, session) ==
    IF session = owner THEN pending ELSE committed

(***************************************************************************)
(* The stored file                                                         *)
(***************************************************************************)
MiB == 1024 * 1024
FileMissing == -1
FileSizes == {4 * MiB, 5 * MiB, 5 * MiB + 1, 6 * MiB}

(***************************************************************************)
(* services/async_ocr_service.py                                           *)
(***************************************************************************)
\* self.max_sync_size
max_sync_size == 5 * 1024 * 1024

\* line 63 with the threshold excluded
UseSyncBelow(force_background, file_size) ==
    ~force_background /\ file_size < max_sync_size

\* the branch of process_document_async line 63
UseSync(force_background, file_size) ==
    ~force_background /\ file_size <= max_sync_size

\* EnhancedOCRService.process_document is a plain def: the dict it returns is
\* not awaitable, and "await <dict>" raises TypeError.
OcrIsCoroutine == FALSE

\* except-clause shared by _process_sync (120-125) and process_document_async
\* (85-93): evaluating DocumentStatus.FAILED comes first.  r is the state the
\* handler is entered with, session the session its db.commit() is called on.
MarkFailed(r, call, session, exc) ==
    IF HasMember("FAILED")
    THEN LET pending == Row(DocumentStatus["FAILED"], ErrorDetail("call", call))
         IN  [committed |-> Commit(r.committed, pending, "outer", session),
              pending |-> pending, exc |-> exc, result |-> None]
    ELSE [committed |-> r.committed, pending |-> r.pending,
          exc |-> "AttributeError", result |-> None]

\* _process_sync: committed is the stored row, the object belongs to the
\* session of process_document_async ("outer"), db is a new session ("inner").
\* ocr is what the OCR service does: "ok" or "raise".
_process_sync(committed, call, ocr) ==
    LET p1 == Row(DocumentStatus["PROCESSING"], committed.extracted_data)
        c1 == Commit(committed, p1, "outer", "inner")
        s1 == [committed |-> c1, pending |-> p1, exc |-> None, result |-> None]
    IN  IF ocr = "raise" THEN MarkFailed(s1, call, "inner", "Exception")
        ELSE IF ~OcrIsCoroutine THEN MarkFailed(s1, call, "inner", "TypeError")
        ELSE LET p2 == Row(DocumentStatus["COMPLETED"], OcrResult(call))
             IN  [committed |-> Commit(c1, p2, "outer", "inner"),
                  pending |-> p2, exc |-> None, result |-> OcrResult(call)]

\* _queue_background_processing: job is the handle send_task returns, 0 when
\* the broker refuses the task.
_queue_background_processing(committed, job) ==
    LET p1 == Row(DocumentStatus["PROCESSING"], committed.extracted_data)
        c1 == Commit(committed, p1, "outer", "inner")
    IN  IF job = 0
        THEN [committed |-> c1, pending |-> p1,
              exc |-> "ExternalServiceError", result |-> None]
        ELSE LET p2 == Row(DocumentStatus["PROCESSING"], JobHandle(job))
             IN  [committed |-> Commit(c1, p2, "outer", "inner"),
                  pending |-> p2, exc |-> None, result |-> job]

\* The body of process_document_async up to its return or raise.
\* path: which branch ran; finally: db.close() drops what is still pending.
DispatchOutcome(committed, file_size, force_background, call, ocr, job) ==
    LET start == [committed |-> committed, pending |-> committed,
                  exc |-> None, result |-> None]
    IN  IF file_size = FileMissing
        THEN [path |-> "none"] @@ MarkFailed(start, call, "outer", "ProcessingError")
        ELSE IF UseSync(force_background, file_size)
        THEN LET r == _process_sync(committed, call, ocr)
             IN  [path |-> "synchronous"] @@
                 (IF r.exc = None THEN r ELSE MarkFailed(r, call, "outer", "ProcessingError"))
        ELSE LET r == _queue_background_processing(committed, job)
             IN  [path |-> "background"] @@
                 (IF r.exc = None THEN r ELSE MarkFailed(r, call, "outer", "ProcessingError"))

NoCall ==
    [id |-> 0, caller |-> None, force_background |-> FALSE, file_size |-> 0,
     before |-> "uploaded", path |-> "none", ocr |-> None, accepted |-> FALSE,
     job |-> 0, status |-> None, exc |-> None]

NoStatus ==
    [called |-> FALSE, before |-> None, status |-> None, job_status |-> None,
     exc |-> None]

\* celery_app.send_task(...): the handle of the new job, 0 if the broker is down
SendTask(accepted) == IF accepted THEN Len(jobs) + 1 ELSE 0

\* What a call leaves in lastCall.
CallRecord(call, caller, force_background, ocr, accepted, out) ==
    [id |-> call, caller |-> caller, force_background |-> force_background,
     file_size |-> file, before |-> documents.status, path |-> out.path,
     ocr |-> IF out.path = "synchronous" THEN ocr ELSE None,
     accepted |-> out.path = "background" /\ accepted,
     job |-> IF out.path = "background" /\ accepted THEN Len(jobs) + 1 ELSE 0,
     status |-> IF out.exc # None THEN None
                ELSE IF out.path = "synchronous" THEN "completed" ELSE "queued",
     exc |-> out.exc]

\* process_document_async(document_id, force_background) as reprocess_document
\* calls it; an exception leaves the endpoint.  ocr: the OCR service's
\* behaviour if it is run; accepted: whether the broker takes a task.
process_document_async(force_background, ocr, accepted) ==
    /\ calls < MaxCalls
    /\ accepted => Len(jobs) < MaxJobs
    /\ LET out == DispatchOutcome(documents, file, force_background, calls + 1,
                                  ocr, SendTask(accepted))
       IN  /\ documents' = out.committed
           /\ jobs' = IF out.path = "background" /\ accepted
                      THEN Append(jobs, "PENDING") ELSE jobs
           /\ lastCall' = CallRecord(calls + 1, "reprocess_document",
                                     force_background, ocr, accepted, out)
    /\ calls' = calls + 1
    /\ lastStatus' = NoStatus
    /\ UNCHANGED <<file, runs, queueing, tplVars, taskVars, extractVars>>

\* The background path of process_document_async in its two commits, for the
\* steps of a worker that fall between them.  NoQueueing: no call is there.
NoQueueing == [job |-> 0, before |-> None, force_background |-> FALSE]

\* process_document_async up to the return of send_task (lines 48-63 and
\* 133-146), the broker accepting the task: status PROCESSING is assigned to
\* the object of the outer session and the inner session is committed.
QueueSend(force_background) ==
    /\ queueing.job = 0
    /\ calls < MaxCalls
    /\ Len(jobs) < MaxJobs
    /\ file # FileMissing
    /\ ~UseSync(force_background, file)
    /\ documents' = Commit(documents,
                           Row(DocumentStatus["PROCESSING"], documents.extracted_data),
                           "outer", "inner")
    /\ jobs' = Append(jobs, "PENDING")
    /\ queueing' = [job |-> SendTask(TRUE), before |-> documents.status,
                    force_background |-> force_background]
    /\ calls' = calls + 1
    /\ lastCall' = NoCall
    /\ lastStatus' = NoStatus
    /\ UNCHANGED <<file, runs, tplVars, taskVars, extractVars>>

\* The rest of that call (lines 149-157 and 66-83): the job handle is assigned
\* to the object of the outer session, the inner session is committed, the
\* call returns status queued and the outer session is closed.
QueueStore ==
    /\ queueing.job # 0
    /\ documents' = Commit(documents,
                           Row(DocumentStatus["PROCESSING"], JobHandle(queueing.job)),
                           "outer", "inner")
    /\ lastCall' = [id |-> calls, caller |-> "reprocess_document",
                    force_background |-> queueing.force_background,
                    file_size |-> file, before |-> queueing.before,
                    path |-> "background", ocr |-> None, accepted |-> TRUE,
                    job |-> queueing.job, status |-> "queued", exc |-> None]
    /\ queueing' = NoQueueing
    /\ lastStatus' = NoStatus
    /\ UNCHANGED <<file, jobs, runs, calls, tplVars, taskVars, extractVars>>

\* upload_documents from the call of process_document_async on the document it
\* has just stored: force_background is False, and an exception of the call is
\* caught and stored as status error with {"error": str(ocr_error)}.
upload_documents(ocr, accepted) ==
    /\ calls = 0
    /\ runs = <<>>
    /\ accepted => Len(jobs) < MaxJobs
    /\ LET out == DispatchOutcome(documents, file, FALSE, calls + 1,
                                  ocr, SendTask(accepted))
       IN  /\ documents' =
                IF out.exc = None THEN out.committed
                ELSE Commit(out.committed,
                            Row(DocumentStatus["ERROR"],
                                Data("error", "call", calls + 1, FALSE)),
                            "db", "db")
           /\ jobs' = IF out.path = "background" /\ accepted
                      THEN Append(jobs, "PENDING") ELSE jobs
           /\ lastCall' = CallRecord(calls + 1, "upload_documents",
                                     FALSE, ocr, accepted, out)
    /\ calls' = calls + 1
    /\ lastStatus' = NoStatus
    /\ UNCHANGED <<file, runs, queueing, tplVars, taskVars, extractVars>>

\* Celery task states a result backend reports
ReadyStates == {"SUCCESS", "FAILURE"}
JobStates == {"PENDING", "STARTED"} \cup ReadyStates

\* celery_app.AsyncResult(job_id).status: a handle the backend does not know is PENDING
AsyncResult(job) == IF job \in DOMAIN jobs THEN jobs[job] ELSE "PENDING"

\* get_processing_status(document_id): the row is loaded and committed by the
\* same session.  status_info is built before the reconciliation.
get_processing_status ==
    LET data == documents.extracted_data
        has_job == data.kind = "job_id"
        state == IF has_job THEN AsyncResult(data.by) ELSE None
        ready == has_job /\ state \in ReadyStates
        raises == ready /\ state # "SUCCESS" /\ ~HasMember("FAILED")
    IN  /\ documents' =
              IF ~ready THEN documents
              ELSE IF state = "SUCCESS"
              THEN Commit(documents,
                          Row(DocumentStatus["COMPLETED"], JobResult(data.by)),
                          "db", "db")
              ELSE IF HasMember("FAILED")
              THEN Commit(documents,
                          Row(DocumentStatus["FAILED"], ErrorDetail("job", data.by)),
                          "db", "db")
              ELSE documents
        /\ lastStatus' = [called |-> TRUE, before |-> documents.status,
                          status |-> IF raises THEN None ELSE documents.status,
                          job_status |-> state,
                          exc |-> IF raises THEN "AttributeError" ELSE None]
        /\ lastCall' = NoCall
        /\ UNCHANGED <<file, jobs, runs, calls, queueing, tplVars, taskVars, extractVars>>

\* The task name the dispatcher sends,
\* workers.enhanced_ocr_worker.process_document_background, is defined by no
\* worker module: a worker that consumes the job rejects it and the backend
\* records FAILURE (NotRegistered); with no consumer it stays PENDING.
JobRejected(job) ==
    /\ job \in DOMAIN jobs
    /\ jobs[job] = "PENDING"
    /\ jobs' = [jobs EXCEPT ![job] = "FAILURE"]
    /\ lastCall' = NoCall
    /\ lastStatus' = NoStatus
    /\ UNCHANGED <<documents, file, runs, calls, queueing, tplVars, taskVars, extractVars>>

\* the result backend reports a new state for a job (any worker, any task)
QueueReports(job, state) ==
    /\ job \in DOMAIN jobs
    /\ jobs[job] \notin ReadyStates
    /\ state # jobs[job]
    /\ jobs' = [jobs EXCEPT ![job] = state]
    /\ lastCall' = NoCall
    /\ lastStatus' = NoStatus
    /\ UNCHANGED <<documents, file, runs, calls, queueing, tplVars, taskVars, extractVars>>

\* the storage layer loses the file (upload_documents removes it on error)
RemoveFile ==
    /\ file # FileMissing
    /\ file' = FileMissing
    /\ lastCall' = NoCall
    /\ lastStatus' = NoStatus
    /\ UNCHANGED <<documents, jobs, runs, calls, queueing, tplVars, taskVars, extractVars>>

(***************************************************************************)
(* workers/enhanced_ocr_worker.py and workers/ocr_template_engine.py       *)
(***************************************************************************)
Worker == "process_document_with_template"
Engine == "OCRTemplateEngine.process_document"

\* template: the id of the template the run's query returned, 0 when the
\* query returned no row, -1 while the run has not made the query.
\* loaded: the status the run's session holds for the row, None while the
\* attributes are expired (after a commit) and when the run has ended.
Run(task, pc, result, template, loaded) ==
    [task |-> task, pc |-> pc, result |-> result, retries |-> 0, template |-> template,
     loaded |-> loaded]

\* db.commit() of the session that owns the object: the UPDATE sets the
\* columns whose assigned value differs from the value the session loaded.
\* extracted_data is always among them: a report holds the updated_at of its
\* run and an error its message.
Flush(committed, loaded, pending) ==
    Row(IF pending.status = loaded THEN committed.status ELSE pending.status,
        pending.extracted_data)

\* db.query(DeclarationTemplate).filter(is_active == True).first(): one of
\* the active rows (the statement has no ORDER BY), no row when none is active
FirstActive(rows) ==
    IF \A t \in rows : ~t.is_active THEN {0} ELSE {t.id : t \in {r \in rows : r.is_active}}

\* First commit of both: the run loads the row and stores status processing.
RunStart(task) ==
    /\ Len(runs) < MaxRuns
    \* upload_document calls the engine on the document it has just stored
    /\ task = Engine =>
          (calls = 0 /\ runs = <<>> /\ documents.status = DocumentStatus["UPLOADED"])
    /\ documents' = Commit(documents,
                           Row(DocumentStatus["PROCESSING"], documents.extracted_data),
                           "db", "db")
    /\ runs' = Append(runs, Run(task, "processing", None, -1, None))
    /\ lastCall' = NoCall
    /\ lastStatus' = NoStatus
    /\ UNCHANGED <<file, jobs, calls, queueing, tplVars, taskVars, extractVars>>

\* The first attribute access after the commit (document.storage_path) loads
\* the row again, in a new transaction.
RunLoad(task, run) ==
    /\ run \in DOMAIN runs
    /\ runs[run].task = task
    /\ runs[run].pc = "processing"
    /\ runs[run].loaded = None
    /\ runs' = [runs EXCEPT ![run].loaded = documents.status]
    /\ lastCall' = NoCall
    /\ lastStatus' = NoStatus
    /\ UNCHANGED <<documents, file, jobs, calls, queueing, tplVars, taskVars, extractVars>>

\* process_document_with_template from the file check to its last commit.
\* The except clause stores the error and re-raises: the task is not retried.
WorkerFinish(run, ocr) ==
    /\ run \in DOMAIN runs
    /\ runs[run].task = Worker
    /\ runs[run].pc = "processing"
    /\ runs[run].loaded # None
    /\ LET failed == file = FileMissing \/ ocr = "raise"
           pending == IF failed
                      THEN Row(DocumentStatus["ERROR"], WorkerError(run))
                      ELSE Row(DocumentStatus["COMPLETED"], WorkerReport(run))
       IN  /\ documents' = Flush(documents, runs[run].loaded, pending)
           /\ \E active_template \in FirstActive(templates) :
                  runs' = [runs EXCEPT ![run] =
                             IF failed THEN Run(Worker, "done", "FAILURE", -1, None)
                             ELSE Run(Worker, "done", "SUCCESS", active_template, None)]
    /\ lastCall' = NoCall
    /\ lastStatus' = NoStatus
    /\ UNCHANGED <<file, jobs, calls, queueing, tplVars, taskVars, extractVars>>

\* template_name of upload_document's call: the default argument
DefaultTemplateName == NameRussian

\* OCRTemplateEngine.process_document after its first commit: without an
\* active template of that name it returns _basic_ocr_extraction(document)
\* and commits nothing more; _extract_text_from_image never raises.
EngineFinish(run) ==
    /\ run \in DOMAIN runs
    /\ runs[run].task = Engine
    /\ runs[run].pc = "processing"
    /\ runs[run].loaded # None
    /\ LET template == {t \in templates : t.name = DefaultTemplateName /\ t.is_active}
       IN  IF template = {}
           THEN /\ documents' = documents
                /\ runs' = [runs EXCEPT ![run] = Run(Engine, "done", "basic", 0, None)]
           ELSE /\ documents' = Flush(documents, runs[run].loaded,
                                      Row(DocumentStatus["COMPLETED"], WorkerReport(run)))
                /\ \E t \in template :
                      runs' = [runs EXCEPT ![run] = Run(Engine, "done", "SUCCESS", t.id, None)]
    /\ lastCall' = NoCall
    /\ lastStatus' = NoStatus
    /\ UNCHANGED <<file, jobs, calls, queueing, tplVars, taskVars, extractVars>>

process_document_with_template ==
    \/ RunStart(Worker)
    \/ \E run \in 1..MaxRuns : RunLoad(Worker, run)
    \/ \E run \in 1..MaxRuns, ocr \in {"ok", "raise"} : WorkerFinish(run, ocr)

OCRTemplateEngine_process_document ==
    \/ RunStart(Engine)
    \/ \E run \in 1..MaxRuns : RunLoad(Engine, run)
    \/ \E run \in 1..MaxRuns : EngineFinish(run)

(***************************************************************************)
(* workers/ocr_worker.py                                                   *)
(***************************************************************************)
\* raise self.retry(exc=e, countdown=60, max_retries=3)
max_retries == 3
countdown == 60

Task(state, retries, delay, attempts) ==
    [state |-> state, retries |-> retries, delay |-> delay, attempts |-> attempts]

\* The shipments row.  Every task is a delivery of one message: the same
\* file_path and shipment_id.  extracted_data is None until a task stores it.
Shipment(status, ocr_text, processed_files, error) ==
    [status |-> status,
     extracted_data |-> [ocr_text |-> ocr_text, processed_files |-> processed_files,
                         error |-> error]]

\* status has the column default "processing"
NewShipment == Shipment("processing", None, <<>>, None)

\* the task's update of the row: ocr_text is replaced, an entry for the file is appended to
\* processed_files, status becomes completed (the text is not blank)
StoreText(row) ==
    Shipment("completed", "text",
             Append(row.extracted_data.processed_files, "file_path"),
             row.extracted_data.error)

\* the task's except clause: the error is stored next to what the row holds
StoreError(row) ==
    Shipment("failed", row.extracted_data.ocr_text,
             row.extracted_data.processed_files, "FileNotFoundError")

\* a process_document_ocr task is sent to ocr_queue
TaskSend ==
    /\ Len(tasks) < MaxTasks
    /\ tasks' = Append(tasks, Task("PENDING", 0, 0, 0))
    /\ UNCHANGED <<shipments, tplVars, docVars, extractVars>>

\* Task.retry: with request.retries + 1 > max_retries it raises exc and the
\* task fails for good, else the task is sent again with the countdown.
Retry(t) ==
    IF t.retries + 1 > max_retries
    THEN Task("FAILURE", t.retries, t.delay, t.attempts + 1)
    ELSE Task("RETRY", t.retries + 1, countdown, t.attempts + 1)

\* one execution of process_document_ocr
process_document_ocr(task, ok) ==
    /\ task \in DOMAIN tasks
    /\ tasks[task].state \in {"PENDING", "RETRY"}
    /\ tasks' = [tasks EXCEPT ![task] =
                   IF ok THEN Task("SUCCESS", @.retries, @.delay, @.attempts + 1)
                   ELSE Retry(@)]
    /\ shipments' = IF ok THEN StoreText(shipments) ELSE StoreError(shipments)
    /\ UNCHANGED <<tplVars, docVars, extractVars>>

(***************************************************************************)
(* OCR text.  A text is a sequence of words; a pattern is named by its     *)
(* regular expression and matches whole words.  Neighbouring words lie     *)
(* within 50 characters of each other, words two apart do not, so the      *)
(* context text[start - 50 : end + 50] of a match is the word before it,   *)
(* the match and the word after it.                                        *)
(***************************************************************************)
MaxText == 2

Words == {"GTD", "TD 1", "TD 2", "deklaratsiya", "otpravitel", "EDN635126", "."}

Texts == UNION {[1..n -> Words] : n \in 0..MaxText}

\* re.search(pattern, word): the words of Words a pattern matches.
\* "(" does not compile: re.error.
PatternMatches(pattern, word) ==
    \/ pattern = "GTD" /\ word = "GTD"
    \/ pattern = "TD\\s*\\d+" /\ word \in {"TD 1", "TD 2"}
    \/ pattern = "TD\\s*1" /\ word = "TD 1"
    \/ pattern = "otpravitel" /\ word = "otpravitel"
    \/ pattern = "EDN(\\d+)" /\ word = "EDN635126"

Compiles(pattern) == pattern # "("

\* text[context_start:context_end].lower() for the match at position i
Context(txt, i) == {txt[j] : j \in {k \in DOMAIN txt : k >= i - 1 /\ k <= i + 1}}

\* Python float arithmetic of the sums the code computes, in units of
\* 0.0001: 0.7 + 0.1 is 0.7999999999999999 and 0.7 + 0.1 + 0.1 is
\* 0.8999999999999999 (written 7999 and 8999); 0.5 + 0.3, 0.8 + 0.1 and
\* 0.9 + 0.1 are exactly 0.8, 0.9 and 1.0.
FloatAdd(a, b) ==
    IF a = 7000 /\ b = 1000 THEN 7999
    ELSE IF a = 7999 /\ b = 1000 THEN 8999
    ELSE a + b

Min(a, b) == IF a < b THEN a ELSE b

(***************************************************************************)
(* services/declaration_generation_service.py                              *)
(***************************************************************************)
\* self.field_mapping, four of its entries: the patterns in authoring order
\* and the extractor.  Patterns that match no word of Words keep their place.
field_mapping ==
    [declaration_type |->
        [patterns |-> <<"GTD", "TD\\s*\\d+", "tip\\s*deklaratsii">>,
         extractors |-> <<"find_declaration_type">>],
     sender_exporter |->
        [patterns |-> <<"GIGAFLEX\\s+ASIA\\s+LIMITED", "otpravitel", "eksporter">>,
         extractors |-> <<"find_sender_info">>],
     total_goods_names |->
        [patterns |-> <<"vsego.*naim.*1", "naimenovanij\\s*tovarov.*1">>,
         extractors |-> <<"find_total_goods">>],
     currency_invoice |->
        [patterns |-> <<"45105\\.63.*USD", "valyuta.*fakturnaya.*stoimost">>,
         extractors |-> <<"find_currency_invoice">>]]

Candidate(value, confidence) == [value |-> value, confidence |-> confidence]

\* The custom extractors: (value, confidence).  Each word of a text stands
\* on a line of its own, so a pattern with ".*" between two words matches
\* no text.
Extractor(name, txt) ==
    IF name = "find_declaration_type"
    THEN IF \E i \in DOMAIN txt : PatternMatches("TD\\s*1", txt[i])
         THEN Candidate("GTD", 9000) ELSE Candidate(None, 0)
    ELSE IF name = "find_sender_info" THEN Candidate(None, 0)
    ELSE IF name = "find_total_goods" THEN Candidate("1", 7000)
    ELSE Candidate("45105.63 USD", 8000)

\* confidence of one pattern match: base 0.7 and the two context boosts
MatchConfidence(txt, i) ==
    LET context == Context(txt, i)
        c0 == 7000
        c1 == IF "deklaratsiya" \in context THEN FloatAdd(c0, 1000) ELSE c0
    IN  IF "otpravitel" \in context THEN FloatAdd(c1, 1000) ELSE c1

\* "if confidence > best_confidence" replaced by first-match-wins
BetterFirstMatch(confidence, best_confidence) == best_confidence = 0

\* "if confidence >= best_confidence": the last of equal candidates wins
BetterOrEqual(confidence, best_confidence) == confidence >= best_confidence

\* if confidence > best_confidence:
Better(confidence, best_confidence) == confidence > best_confidence

\* for match in re.finditer(pattern, text, ...), from position i on
RECURSIVE ScanMatches(_, _, _, _)
ScanMatches(txt, pattern, i, best) ==
    IF i > Len(txt) THEN best
    ELSE IF PatternMatches(pattern, txt[i])
              /\ Better(MatchConfidence(txt, i), best.confidence)
    THEN ScanMatches(txt, pattern, i + 1, Candidate(txt[i], MatchConfidence(txt, i)))
    ELSE ScanMatches(txt, pattern, i + 1, best)

\* for pattern in mapping_info.get("patterns", []), from index k on
RECURSIVE ScanPatterns(_, _, _, _)
ScanPatterns(txt, patterns, k, best) ==
    IF k > Len(patterns) THEN best
    ELSE ScanPatterns(txt, patterns, k + 1, ScanMatches(txt, patterns[k], 1, best))

\* for extractor_name in mapping_info.get("extractors", []), from index k on
RECURSIVE ScanExtractors(_, _, _, _)
ScanExtractors(txt, extractors, k, best) ==
    IF k > Len(extractors) THEN best
    ELSE LET c == Extractor(extractors[k], txt)
         IN  ScanExtractors(txt, extractors, k + 1,
                            IF Better(c.confidence, best.confidence) THEN c ELSE best)

\* DeclarationGenerationService._extract_field_value
_extract_field_value(txt, field_name, mapping_info) ==
    LET b1 == ScanPatterns(txt, mapping_info.patterns, 1, Candidate(None, 0))
        b2 == ScanExtractors(txt, mapping_info.extractors, 1, b1)
    IN  Candidate(b2.value, Min(b2.confidence, 10000))

\* template.fields
TemplateFields(rows, template_id) == {f \in rows : f.template_id = template_id}

\* "if value:" on an optional string
Truthy(value) == value # None /\ value # ""

\* round(num / den * 100, 1) in tenths of a percent: the nearest tenth, an
\* exact half going to the even one
Round1(num, den) ==
    LET q == (num * 1000) \div den
        r == (num * 1000) % den
    IN  IF 2 * r > den THEN q + 1
        ELSE IF 2 * r = den THEN q + (q % 2)
        ELSE q

\* len(extracted_data.keys()) without the endswith('_confidence') filter
filled_fields_all_keys(filled) == 2 * Cardinality(filled)

\* len([k for k in extracted_data.keys() if not k.endswith('_confidence')])
filled_fields(filled) == Cardinality(filled)

\* DeclarationGenerationService.generate_declaration_from_ocr
generate_declaration_from_ocr(ocr_text, template_id) ==
    IF ~TemplateFound(templates, template_id)
    THEN [exc |-> "ValueError", template_id |-> template_id]
    ELSE LET template_fields == TemplateFields(fields, template_id)
             mapped == {f.field_name : f \in template_fields} \cap DOMAIN field_mapping
             result(n) == _extract_field_value(ocr_text, n, field_mapping[n])
             filled == {n \in mapped : Truthy(result(n).value)}
             total_fields == Cardinality(template_fields)
         IN  IF total_fields = 0
             THEN [exc |-> "ZeroDivisionError", template_id |-> template_id]
             ELSE [exc |-> None, template_id |-> template_id,
                   extracted_data |-> [n \in filled |-> result(n).value],
                   confidence_scores |-> [n \in filled |-> result(n).confidence],
                   statistics |->
                     [total_fields |-> total_fields,
                      filled_fields |-> filled_fields(filled),
                      completion_percentage |->
                          Round1(filled_fields(filled), total_fields),
                      high_confidence_fields |->
                          Cardinality({n \in filled : result(n).confidence > 8000})]]

\* no extraction has been called
NoReport == [op |-> "none"]

\* A call of an extraction function on the current text and tables, and the
\* same call made a second time.  The functions keep nothing between calls:
\* a behaviour makes one call.
Returned(op, arg, out, again) ==
    /\ report = NoReport
    /\ report' = [op |-> op, arg |-> arg, out |-> out, again |-> again]
    /\ UNCHANGED <<text, tplVars, docVars, taskVars>>

Apply_extract_field_value(field_name) ==
    Returned("_extract_field_value", field_name,
             _extract_field_value(text, field_name, field_mapping[field_name]),
             _extract_field_value(text, field_name, field_mapping[field_name]))

Apply_generate_declaration_from_ocr(template_id) ==
    Returned("generate_declaration_from_ocr", template_id,
             generate_declaration_from_ocr(text, template_id),
             generate_declaration_from_ocr(text, template_id))

(***************************************************************************)
(* Rule evaluation of the OCR engine and of the enhanced worker            *)
(***************************************************************************)
\* match.group(1) if match.groups() else match.group(0)
MatchValue(pattern, word) == IF pattern = "EDN(\\d+)" THEN "635126" ELSE word

\* re.search(pattern, text, ...): the value of the first match, None without one
Search(pattern, txt) ==
    LET hits == {i \in DOMAIN txt : PatternMatches(pattern, txt[i])}
    IN  IF hits = {} THEN None
        ELSE MatchValue(pattern, txt[CHOOSE i \in hits : \A j \in hits : i <= j])

\* What evaluating a rule gives: a value, or the exception it raises.
Value(v) == [value |-> v, exc |-> None]
Raises(exc) == [value |-> None, exc |-> exc]

\* OCRTemplateEngine._extract_field_value(text, extraction_rules): a rule
\* without "type" is taken as a regex, a rule without "pattern" has pattern
\* ""; the type "keyword" is not one the engine knows.
OCRTemplateEngine_extract_field_value(txt, extraction_rules) ==
    LET rule_type == IF extraction_rules.type = None THEN "regex"
                     ELSE extraction_rules.type
        pattern == IF extraction_rules.arg = None THEN "" ELSE extraction_rules.arg
    IN  IF rule_type = "regex" /\ pattern # ""
        THEN IF Compiles(pattern) THEN Value(Search(pattern, txt)) ELSE Raises("re.error")
        ELSE Value(None)

\* character classes of the values: re.search(r'\d', value),
\* re.search(r'[A-Za-zА-Яа-я]', value), len(value.strip()) > 0
HasDigit(value) == value \in {"TD 1", "TD 2", "EDN635126", "635126", "1", "45105.63 USD"}
HasLetter(value) ==
    value \in {"GTD", "TD 1", "TD 2", "deklaratsiya", "otpravitel", "EDN635126", "45105.63 USD"}
NotBlank(value) == value # " "

\* _calculate_confidence with boosts of 0.3 for a digit and for a letter and
\* without the final min(confidence, 1.0)
OCRTemplateEngine_calculate_confidence_uncapped(value) ==
    IF ~Truthy(value) THEN 0
    ELSE LET c1 == IF NotBlank(value) THEN FloatAdd(5000, 3000) ELSE 5000
             c2 == IF HasDigit(value) THEN FloatAdd(c1, 3000) ELSE c1
         IN  IF HasLetter(value) THEN FloatAdd(c2, 3000) ELSE c2

\* OCRTemplateEngine._calculate_confidence(value)
OCRTemplateEngine_calculate_confidence(value) ==
    IF ~Truthy(value) THEN 0
    ELSE LET c1 == IF NotBlank(value) THEN FloatAdd(5000, 3000) ELSE 5000
             c2 == IF HasDigit(value) THEN FloatAdd(c1, 1000) ELSE c1
             c3 == IF HasLetter(value) THEN FloatAdd(c2, 1000) ELSE c2
         IN  Min(c3, 10000)

\* One entry of the engine's extracted_data
FieldResult(value, confidence, error) ==
    [value |-> value, confidence |-> confidence, error |-> error]

\* OCRTemplateEngine._apply_template_extraction(text, template_fields): one
\* entry per field name; the except clause stores value None, confidence 0.0
\* and the error.
_apply_template_extraction(txt, template_fields) ==
    [n \in {f.field_name : f \in template_fields} |->
        LET field == CHOOSE f \in template_fields : f.field_name = n
            r == OCRTemplateEngine_extract_field_value(txt, field.extraction_rules)
        IN  IF r.exc # None THEN FieldResult(None, 0, r.exc)
            ELSE FieldResult(r.value, OCRTemplateEngine_calculate_confidence(r.value), None)]

\* the word after the first occurrence of keyword: text[start_pos:start_pos + 50].strip()
AfterKeyword(keyword, txt) ==
    LET hits == {i \in DOMAIN txt : txt[i] = keyword}
    IN  IF hits = {} THEN None
        ELSE LET i == CHOOSE h \in hits : \A j \in hits : h <= j
             IN  IF i + 1 \in DOMAIN txt THEN txt[i + 1] ELSE ""

\* apply_extraction_rule(text, extraction_rules) of enhanced_ocr_worker.py
apply_extraction_rule(txt, extraction_rules) ==
    IF extraction_rules.type = "regex"
    THEN IF ~Truthy(extraction_rules.arg) THEN Value(None)
         ELSE IF Compiles(extraction_rules.arg)
         THEN Value(Search(extraction_rules.arg, txt))
         ELSE Raises("re.error")
    ELSE IF extraction_rules.type = "keyword"
    THEN IF ~Truthy(extraction_rules.arg) THEN Value(None)
         ELSE Value(AfterKeyword(extraction_rules.arg, txt))
    ELSE Value(None)

\* process_document_with_template, lines 76-88: extracted_data["extracted_fields"].
\* A field whose rule raises is skipped (continue), a field without a value
\* is left out.
extracted_fields(txt, template_fields) ==
    LET r(f) == apply_extraction_rule(txt, f.extraction_rules)
        kept == {f \in template_fields : r(f).exc = None /\ Truthy(r(f).value)}
    IN  [n \in {f.field_name : f \in kept} |->
            LET field == CHOOSE f \in kept : f.field_name = n
            IN  [value |-> r(field).value,
                 extraction_method |-> field.extraction_rules.type]]

Apply_apply_template_extraction(template_id) ==
    Returned("_apply_template_extraction", template_id,
             _apply_template_extraction(text, TemplateFields(fields, template_id)),
             _apply_template_extraction(text, TemplateFields(fields, template_id)))

Apply_extracted_fields(template_id) ==
    Returned("process_document_with_template", template_id,
             extracted_fields(text, TemplateFields(fields, template_id)),
             extracted_fields(text, TemplateFields(fields, template_id)))

Values == Words \cup {None, "", " ", "1", "635126"}

Apply_calculate_confidence(value) ==
    Returned("_calculate_confidence", value,
             OCRTemplateEngine_calculate_confidence(value),
             OCRTemplateEngine_calculate_confidence(value))

(***************************************************************************)
(* services/declaration_generator.py                                       *)
(***************************************************************************)
\* datetime.now() and random.randint(100000, 999999) as the calls see them
Clock == {1, 2}
RandomInts == {100000, 999999}

\* RussianCustomsDeclarationTemplate.extract_fields_from_text: the EDN number
\* of the text, None when no line has one.  No word of Words is a
\* declaration number line ("Копия / ...").
extract_fields_from_text(ocr_text) ==
    [edn_number |-> Search("EDN(\\d+)", ocr_text)]

\* DeclarationGeneratorService._enhance_extracted_data: the date and the
\* number of the declaration are filled from the clock, a missing EDN number
\* from random.randint; _set_default_values fills constants.
_enhance_extracted_data(data, now, rnd) ==
    [declaration_date |-> [stamped |-> now],
     declaration_number |-> [stamped |-> now],
     edn_number |-> IF Truthy(data.edn_number)
                    THEN [from |-> "text", digits |-> 635126]
                    ELSE [from |-> "random.randint", digits |-> rnd],
     declaration_type |-> "A",
     td_type |-> "1"]

\* DeclarationGeneratorService.generate_declaration({'text': text})
generate_declaration(ocr_text, now, rnd) ==
    [success |-> TRUE,
     extracted_fields |-> _enhance_extracted_data(extract_fields_from_text(ocr_text),
                                                  now, rnd),
     generated_at |-> [stamped |-> now]]

Apply_generate_declaration(now, rnd, later, rnd2) ==
    /\ later >= now
    /\ Returned("generate_declaration", "text",
                generate_declaration(text, now, rnd),
                generate_declaration(text, later, rnd2))

\* One template and its fields as an extraction finds them.  A field name
\* stands for one rule here, so that two fields of one name give one result.
FieldInputs ==
    {<<"declaration_type", Rule("regex", "GTD")>>,
     <<"sender_exporter", Rule("regex", "(")>>,
     <<"total_goods_names", Rule("keyword", "otpravitel")>>,
     <<"declaration_number", Rule(None, None)>>}

FieldTables ==
    UNION {{{TemplateField(i, 1, g[i][1], g[i][2]) : i \in 1..n} :
                g \in [1..n -> FieldInputs]} : n \in 0..MaxFields}

(***************************************************************************)
(* services/reference_data_service.py.  An extracted-data map is a         *)
(* function from its keys to their values.  The country and the currency   *)
(* lookup are modelled; the transport and the declaration-type lookup add  *)
(* their keys in the same way.                                             *)
(***************************************************************************)
\* self.country_codes and self.currency_codes in insertion order, the first
\* two entries of each
country_codes ==
    <<[key |-> "KAZAHSTAN", code |-> "398"], [key |-> "ROSSIYA", code |-> "643"]>>

currency_codes ==
    <<[key |-> "UZS", code |-> "860", name_ru |-> "SUM UZBEKISTANA", name_en |-> "UZBEKISTAN SUM"],
      [key |-> "USD", code |-> "840", name_ru |-> "DOLLAR SSHA", name_en |-> "US DOLLAR"]>>

NotFound == [key |-> None]

\* the values a country field and a currency field can hold
CountryTexts == {"KAZAHSTAN", "rossiya ", "ROSS", "", "Mars"}
CurrencyTexts == {"USD", "usd", "DOLLAR", "XXX"}

\* text.upper().strip()
UpperStrip(t) ==
    IF t = "rossiya " THEN "ROSSIYA"
    ELSE IF t = "usd" THEN "USD"
    ELSE IF t = "Mars" THEN "MARS"
    ELSE t

\* a in b, for the strings above
In(a, b) ==
    \/ a = ""
    \/ a = b
    \/ a = "ROSS" /\ b = "ROSSIYA"
    \/ a = "DOLLAR" /\ b \in {"DOLLAR SSHA", "US DOLLAR"}

\* the first entry of a table that satisfies a test, NotFound if none does
\* (hits: the positions of the entries that satisfy it)
FirstEntry(table, hits) ==
    IF hits = {} THEN NotFound
    ELSE table[CHOOSE i \in hits : \A j \in hits : i <= j]

\* ReferenceDataService.find_country_by_name: direct match, then partial match
find_country_by_name(t) ==
    LET text_upper == UpperStrip(t)
        Direct(e) == e.key = text_upper
        Partial(e) == In(e.key, text_upper) \/ In(text_upper, e.key)
        table == country_codes
        direct == FirstEntry(table, {i \in DOMAIN table : Direct(table[i])})
    IN  IF direct # NotFound THEN direct
        ELSE FirstEntry(table, {i \in DOMAIN table : Partial(table[i])})

\* ReferenceDataService.find_currency_by_code_or_name
find_currency_by_code_or_name(t) ==
    LET text_upper == UpperStrip(t)
        Direct(e) == e.key = text_upper
        ByName(e) == In(text_upper, e.name_ru) \/ In(text_upper, e.name_en)
        table == currency_codes
        direct == FirstEntry(table, {i \in DOMAIN table : Direct(table[i])})
    IN  IF direct # NotFound THEN direct
        ELSE FirstEntry(table, {i \in DOMAIN table : ByName(table[i])})

\* enhanced_data[key] = value
Put(d, key, value) == [k \in DOMAIN d \cup {key} |-> IF k = key THEN value ELSE d[k]]

\* key.endswith('_enhanced')
EndsWithEnhanced(key) == key \in {"dispatch_country_enhanced", "currency_enhanced"}

\* ReferenceDataService.enhance_extracted_data
enhance_extracted_data(extracted_data) ==
    LET country_info == IF "dispatch_country" \in DOMAIN extracted_data
                        THEN find_country_by_name(extracted_data["dispatch_country"])
                        ELSE NotFound
        e1 == IF country_info # NotFound
              THEN Put(Put(extracted_data, "dispatch_country_code", country_info.code),
                       "dispatch_country_enhanced", TRUE)
              ELSE extracted_data
        currency_info == IF "currency_code" \in DOMAIN extracted_data
                         THEN find_currency_by_code_or_name(extracted_data["currency_code"])
                         ELSE NotFound
        e2 == IF currency_info # NotFound
              THEN Put(Put(Put(e1, "currency_code_numeric", currency_info.code),
                           "currency_name", currency_info.name_ru),
                       "currency_enhanced", TRUE)
              ELSE e1
        enhanced_fields == Cardinality({k \in DOMAIN e2 : EndsWithEnhanced(k)})
    IN  Put(e2, "reference_data_enhancements", enhanced_fields)

\* The extracted-data maps: any of the two source fields, and the fields
\* dispatch_country_code and currency_name as a template can extract them.
DataMaps ==
    LET Choices == [dispatch_country |-> CountryTexts \cup {None},
                    currency_code |-> CurrencyTexts \cup {None},
                    dispatch_country_code |-> {"398", "643", None},
                    currency_name |-> {"US DOLLAR", None}]
        full == [DOMAIN Choices -> UNION {Choices[k] : k \in DOMAIN Choices}]
        ok == {f \in full : \A k \in DOMAIN Choices : f[k] \in Choices[k]}
    IN  {[k \in {x \in DOMAIN Choices : f[x] # None} |-> f[k]] : f \in ok}

\* enhance_extracted_data(d), and enhance_extracted_data of its result
Apply_enhance_extracted_data(d) ==
    Returned("enhance_extracted_data", d,
             enhance_extracted_data(d),
             enhance_extracted_data(enhance_extracted_data(d)))

(***************************************************************************)
(* Specifications                                                          *)
(***************************************************************************)
ExtractIdle ==
    /\ text = <<>>
    /\ report = NoReport

DocInit ==
    /\ documents = Row(DocumentStatus["UPLOADED"], NoData)
    /\ jobs = <<>>
    /\ runs = <<>>
    /\ calls = 0
    /\ lastCall = NoCall
    /\ lastStatus = NoStatus
    /\ queueing = NoQueueing

\* The template table as the document handlers find it: empty, or seeded by
\* create_russian_template.
SeededInit ==
    \/ TplInit
    \/ /\ templates = {DeclarationTemplate(1, NameRussian, TRUE)}
       /\ nextTemplateId = 2
       /\ seedPc = [s \in SeedScripts |-> 0]
       /\ tplLast = NoTplOp
       /\ tplPrevSet = 0
       /\ fields = {SeedField("russian", 1, 1)}
       /\ nextFieldId = 2

\* The template administration.
Init ==
    /\ TplInit
    /\ DocInit
    /\ file = 4 * MiB
    /\ tasks = <<>>
    /\ shipments = NewShipment
    /\ ExtractIdle

Next ==
    \/ \E n \in Names, a \in BOOLEAN : create_template(n, a)
    \/ \E id \in 1..MaxTemplates, n \in Names \cup {None},
          a \in {"True", "False", None} : update_template(id, n, a)
    \/ \E id \in 1..MaxTemplates : delete_template(id)
    \/ create_russian_template

Spec == Init /\ [][Next]_vars

\* The seed scripts beside the admin creating and deleting templates.
NextSeed ==
    \/ \E a \in BOOLEAN : create_template(NameRussian, a)
    \/ \E id \in 1..MaxTemplates : delete_template(id)
    \/ create_russian_template
    \/ create_exact_russian_declaration
    \/ create_improved_russian_template

SpecSeed == Init /\ [][NextSeed]_vars

\* The admin endpoints on templates and their fields.
FieldNames == {"declaration_type", "total_goods_names"}
RuleInputs == {Rule("regex", "GTD"), Rule("regex", "(")}

NextFields ==
    \/ \E a \in BOOLEAN : create_template(NameRussian, a)
    \/ \E id \in 1..MaxTemplates : delete_template(id)
    \/ \E id \in 1..MaxTemplates, fn \in FieldNames, r \in RuleInputs :
          create_template_field(id, fn, r)
    \/ \E id \in 1..MaxFields, fn \in FieldNames \cup {None}, r \in RuleInputs \cup {Unset} :
          update_template_field(id, fn, r)
    \/ \E id \in 1..MaxFields : delete_template_field(id)

SpecFields == Init /\ [][NextFields]_vars

\* The extraction functions on every text and every field table of the bounds.
InitExtract ==
    /\ templates = {DeclarationTemplate(1, NameRussian, TRUE)}
    /\ nextTemplateId = 2
    /\ seedPc = [s \in SeedScripts |-> 0]
    /\ tplLast = NoTplOp
    /\ tplPrevSet = 0
    /\ fields \in FieldTables
    /\ nextFieldId = Cardinality(fields) + 1
    /\ DocInit
    /\ file = 4 * MiB
    /\ tasks = <<>>
    /\ shipments = NewShipment
    /\ text \in Texts
    /\ report = NoReport

NextExtract ==
    \/ \E n \in DOMAIN field_mapping : Apply_extract_field_value(n)
    \/ \E id \in 1..2 : Apply_generate_declaration_from_ocr(id)
    \/ Apply_apply_template_extraction(1)
    \/ Apply_extracted_fields(1)
    \/ \E v \in Values : Apply_calculate_confidence(v)
    \/ \E now \in Clock, rnd \in RandomInts, later \in Clock, rnd2 \in RandomInts :
          Apply_generate_declaration(now, rnd, later, rnd2)

SpecExtract == InitExtract /\ [][NextExtract]_vars

\* The reference data service on every extracted-data map of DataMaps.
NextReference == \E d \in DataMaps : Apply_enhance_extracted_data(d)

SpecReference == Init /\ [][NextReference]_vars

\* The dispatcher, the queue and the workers on one document.
InitDoc ==
    /\ SeededInit
    /\ DocInit
    /\ file \in FileSizes
    /\ tasks = <<>>
    /\ shipments = NewShipment
    /\ ExtractIdle

NextDoc ==
    \/ \E fb \in BOOLEAN, ocr \in {"ok", "raise"}, accepted \in BOOLEAN :
          process_document_async(fb, ocr, accepted)
    \/ \E ocr \in {"ok", "raise"}, accepted \in BOOLEAN : upload_documents(ocr, accepted)
    \/ get_processing_status
    \/ \E job \in 1..MaxJobs : JobRejected(job)
    \/ RemoveFile
    \/ process_document_with_template
    \/ OCRTemplateEngine_process_document

SpecDoc == InitDoc /\ [][NextDoc]_vars

\* The dispatcher and the queue without the workers.
NextDispatch ==
    \/ \E fb \in BOOLEAN, ocr \in {"ok", "raise"}, accepted \in BOOLEAN :
          process_document_async(fb, ocr, accepted)
    \/ \E ocr \in {"ok", "raise"}, accepted \in BOOLEAN : upload_documents(ocr, accepted)
    \/ get_processing_status
    \/ \E job \in 1..MaxJobs : JobRejected(job)
    \/ RemoveFile

SpecDispatch == InitDoc /\ [][NextDispatch]_vars

\* A call on the background path, commit by commit, beside the deliveries of
\* process_document_with_template and the status endpoint.
InitQueue ==
    /\ TplInit
    /\ DocInit
    /\ file \in {4 * MiB, 6 * MiB}
    /\ tasks = <<>>
    /\ shipments = NewShipment
    /\ ExtractIdle

NextQueue ==
    \/ \E fb \in BOOLEAN : QueueSend(fb)
    \/ QueueStore
    \/ process_document_with_template
    \/ get_processing_status
    \/ \E job \in 1..MaxJobs : JobRejected(job)

SpecQueue == InitQueue /\ [][NextQueue]_vars

\* The Celery tasks and their retries.
InitTasks ==
    /\ TplInit
    /\ DocInit
    /\ file \in {4 * MiB, FileMissing}
    /\ tasks = <<>>
    /\ shipments = NewShipment
    /\ ExtractIdle

NextTasks ==
    \/ \E fb \in BOOLEAN, ocr \in {"ok", "raise"}, accepted \in BOOLEAN :
          process_document_async(fb, ocr, accepted)
    \/ TaskSend
    \/ \E task \in 1..MaxTasks, ok \in BOOLEAN : process_document_ocr(task, ok)
    \/ process_document_with_template

SpecTasks == InitTasks /\ [][NextTasks]_vars

\* get_processing_status against every content of the documents row and every
\* report of the result backend.
InitStatus ==
    /\ TplInit
    /\ documents \in {Row(st, d) : st \in StatusValues,
                                   d \in {NoData, JobHandle(1), JobResult(1),
                                          WorkerReport(1), WorkerError(1)}}
    /\ jobs = <<"PENDING">>
    /\ file = 4 * MiB
    /\ runs = <<>>
    /\ calls = 0
    /\ lastCall = NoCall
    /\ lastStatus = NoStatus
    /\ queueing = NoQueueing
    /\ tasks = <<>>
    /\ shipments = NewShipment
    /\ ExtractIdle

NextStatus ==
    \/ get_processing_status
    \/ \E job \in 1..MaxJobs, st \in JobStates : QueueReports(job, st)

SpecStatus == InitStatus /\ [][NextStatus]_vars

\* SpecDoc with every started run finishing and every sent job reaching a
\* worker: the scheduling a running Celery deployment gives.
FairSpecDoc ==
    /\ SpecDoc
    /\ \A run \in 1..MaxRuns :
          /\ WF_vars(\E ocr \in {"ok", "raise"} : WorkerFinish(run, ocr))
          /\ WF_vars(EngineFinish(run))
    /\ \A job \in 1..MaxJobs : WF_vars(JobRejected(job))

(***************************************************************************)
(* Claims on the dispatcher and the workers                                *)
(***************************************************************************)
\* the per-document state machine of the design
AllowedTransitions ==
    {<<"uploaded", "processing">>, <<"processing", "completed">>,
     <<"processing", "error">>, <<"completed", "processing">>,
     <<"error", "processing">>}

\* C1: the stored status is always one of uploaded, processing, completed,
\* error, and every change of it made by process_document_async,
\* get_processing_status or a worker is a step of uploaded -> processing ->
\* {completed, error}, with re-entry into processing from completed or error.
\* (as claimed; the error write of the caller upload_documents is not counted)
C1_StateMachine ==
    [][/\ documents'.status \in StatusValues
       /\ (/\ documents'.status # documents.status
           /\ lastCall'.caller # "upload_documents")
             => <<documents.status, documents'.status>> \in AllowedTransitions]_vars

\* C2: a call on an existing file runs the OCR inside the call exactly when
\* force_background is false and the size is at most 5 MiB; in every other
\* case, the broker accepting the task, it sends a job, returns status queued
\* with the job handle and runs no OCR in the call.
C2_SizingPolicy ==
    (lastCall.id # 0 /\ lastCall.file_size # FileMissing) =>
        LET inline == ~lastCall.force_background /\ lastCall.file_size <= 5242880
        IN  /\ (lastCall.ocr # None) <=> inline
            /\ (lastCall.path = "synchronous") <=> inline
            /\ (~inline /\ lastCall.accepted) =>
                  /\ lastCall.ocr = None
                  /\ lastCall.status = "queued"
                  /\ lastCall.job \in DOMAIN jobs
                  /\ lastCall.exc = None
            /\ inline => lastCall.job = 0 /\ lastCall.status # "queued"

\* a file of exactly 5 MiB has gone through the OCR inside the call
C2_Witness ==
    /\ lastCall.id # 0
    /\ lastCall.file_size = 5242880
    /\ ~lastCall.force_background
    /\ lastCall.ocr # None
    /\ jobs = <<>>

\* C3: when a call has taken the inline path and its OCR succeeded, at the
\* end of the call the stored status is completed and the stored
\* extracted_data is the result of that call.  (as claimed)
C3_InlineResultStored ==
    (lastCall.caller = "reprocess_document" /\ lastCall.path = "synchronous"
       /\ lastCall.ocr = "ok")
      => /\ documents = Row("completed", OcrResult(lastCall.id))
         /\ lastCall.status = "completed"

C5_FailureStored ==
    /\ (lastCall.id # 0 /\ (lastCall.file_size = FileMissing \/ lastCall.exc # None))
          => /\ documents.status = "error"
             /\ documents.extracted_data.kind = "error"
             /\ documents.extracted_data.failed_at
    /\ \A run \in DOMAIN runs :
          (runs[run].result = "FAILURE" /\ documents.extracted_data = WorkerError(run))
             => documents.extracted_data.failed_at

\* C6: a document whose stored status is processing eventually has status
\* completed or error.  (as claimed)
C6_ProcessingEnds ==
    (documents.status = "processing") ~> (documents.status \in {"completed", "error"})

\* C7: a background task that has failed for good was retried 3 times,
\* each time with a 60 s delay, and ran 4 times in all; a failed inline call
\* has queued nothing to run again.  (as claimed)
C7_RetriedThenFailed ==
    /\ \A task \in DOMAIN tasks :
          /\ tasks[task].retries <= 3
          /\ tasks[task].attempts <= 4
          /\ tasks[task].retries > 0 => tasks[task].delay = 60
          /\ tasks[task].state = "FAILURE" => tasks[task].retries = 3
    /\ \A run \in DOMAIN runs :
          (runs[run].task = Worker /\ runs[run].result = "FAILURE")
             => runs[run].retries = 3
    /\ (lastCall.path = "synchronous" /\ lastCall.exc # None) => lastCall.job = 0

\* C8: when a call on a document in status completed or error has run its
\* pass inline, the stored status and extracted_data at the end of the call
\* are those of that pass: nothing of the earlier pass remains.  (as claimed)
C8_ReprocessReplaces ==
    (lastCall.id # 0 /\ lastCall.before \in {"completed", "error"}
       /\ lastCall.path = "synchronous")
      => /\ documents.status \in {"completed", "error"}
         /\ documents.extracted_data.src = "call"
         /\ documents.extracted_data.by = lastCall.id

\* C18: no failure of a document leaves process_document_async as an
\* exception: every call returns, and a call that hit a missing file, a
\* failing OCR or a refusing broker leaves status error with an error detail
\* in the stored row, where get_processing_status reads it.  (as claimed)
C18_NoExceptionPastDispatcher ==
    lastCall.id # 0 =>
          /\ lastCall.exc = None
          /\ (lastCall.file_size = FileMissing \/ lastCall.ocr = "raise"
                \/ (lastCall.path = "background" /\ ~lastCall.accepted))
               => documents.status = "error" /\ documents.extracted_data.kind = "error"

\* C19: a run that asked for the active template and found none ends as a
\* failure surfaced to its caller and stores no result: the document is not
\* marked completed by it.  (as claimed)
C19_NoTemplateNoResult ==
    \A run \in DOMAIN runs :
        (runs[run].pc = "done" /\ runs[run].template = 0)
          => /\ runs[run].result = "FAILURE"
             /\ documents # Row("completed", WorkerReport(run))

\* C22: a document has at most one extraction run in flight, and a call of
\* process_document_async on a document whose stored status is processing
\* starts no run: it sends no job and runs no OCR.  (as claimed)
C22_OneRunInFlight ==
    /\ Cardinality({run \in DOMAIN runs : runs[run].pc # "done"}) <= 1
    /\ (lastCall.id # 0 /\ lastCall.before = DocumentStatus["PROCESSING"]) =>
          (lastCall.job = 0 /\ lastCall.ocr = None)

\* C23: a run that finishes after a more recently started run of the same
\* document has stored its result leaves the stored status and
\* extracted_data as the newer run wrote them.  (as claimed)
C23_NewestRunWins ==
    [][\A run \in DOMAIN runs :
          (/\ runs[run].pc # "done"
           /\ runs'[run].pc = "done"
           /\ \E newer \in DOMAIN runs :
                 /\ newer > run
                 /\ runs[newer].pc = "done"
                 /\ documents.extracted_data.src = "run"
                 /\ documents.extracted_data.by = newer)
          => documents' = documents]_vars

\* C27: when OCRTemplateEngine.process_document returns, the stored status of
\* the document is completed or error.  (as claimed)
C27_EngineEndsTerminal ==
    [][\A run \in DOMAIN runs :
          (runs[run].task = Engine /\ runs[run].pc # "done" /\ runs'[run].pc = "done")
          => documents'.status \in {DocumentStatus["COMPLETED"], DocumentStatus["ERROR"]}]_vars

C26_RedeliverySafe ==
    [][/\ \A task \in DOMAIN tasks :
             (/\ tasks[task].state # "SUCCESS"
              /\ tasks'[task].state = "SUCCESS"
              /\ shipments.status = "completed"
              /\ \E other \in DOMAIN tasks : tasks[other].state = "SUCCESS")
             => shipments' = shipments
       /\ \A run \in DOMAIN runs :
             (/\ runs[run].pc # "done"
              /\ runs'[run].pc = "done"
              /\ runs'[run].result = "SUCCESS"
              /\ \E other \in DOMAIN runs :
                    /\ runs[other].pc = "done"
                    /\ runs[other].result = "SUCCESS"
                    /\ documents.extracted_data = WorkerReport(other))
             => documents'.extracted_data = documents.extracted_data]_vars

\* C24: a step that stores a terminal status stores with it the payload of
\* the run, call or job that made the step, a report with completed and an
\* error detail with error: a terminal status is never stored with a job
\* handle or with the payload of another writer.  (as claimed)
C24_StatusWithItsPayload ==
    [][(/\ documents' # documents
        /\ documents'.status \in {DocumentStatus["COMPLETED"], DocumentStatus["ERROR"]}) =>
           LET d == documents'.extracted_data
           IN  /\ d.kind = IF documents'.status = DocumentStatus["COMPLETED"]
                           THEN "result" ELSE "error"
               /\ \/ /\ d.src = "run"
                     /\ d.by \in DOMAIN runs
                     /\ runs[d.by].pc # "done"
                     /\ runs'[d.by].pc = "done"
                  \/ d.src = "call" /\ calls' = calls + 1 /\ d.by = calls'
                  \/ /\ d.src = "job"
                     /\ lastStatus'.called
                     /\ documents.extracted_data = JobHandle(d.by)]_vars

AllCandidates(txt, mapping_info) ==
    {Candidate(txt[i], MatchConfidence(txt, i)) :
        i \in {j \in DOMAIN txt :
                 \E k \in DOMAIN mapping_info.patterns :
                    PatternMatches(mapping_info.patterns[k], txt[j])}}
    \cup {c \in {Extractor(mapping_info.extractors[k], txt) :
                    k \in DOMAIN mapping_info.extractors} : c.value # None}

\* C13: _extract_field_value returns a candidate of highest confidence among
\* all non-null candidates of the field's patterns and extractors, whichever
\* pattern produced it, and (None, 0.0) only when there is no candidate.
C13_BestCandidateWins ==
    report.op = "_extract_field_value" =>
        LET candidates == AllCandidates(text, field_mapping[report.arg])
        IN  IF candidates = {} THEN report.out = Candidate(None, 0)
            ELSE /\ report.out \in candidates
                 /\ \A c \in candidates : c.confidence <= report.out.confidence

\* only the second pattern of sender_exporter matches, no extractor does: the
\* result is that match with its confidence
C13_Witness ==
    /\ report.op = "_extract_field_value"
    /\ report.arg = "sender_exporter"
    /\ report.out.value = "otpravitel"
    /\ report.out.confidence >= 7000

\* the rule of a field raises when it is evaluated
Malformed(f) == f.extraction_rules.type = "regex" /\ ~Compiles(f.extraction_rules.arg)

\* C14: on a template with a field whose rule raises, each entry point
\* returns a report, the report has no value for that field (value None with
\* confidence 0.0, or no entry where the report lists non-null results only)
\* and it has an entry for every other field of the engine's report.
\* (as claimed)
C14_FieldFailureContained ==
    LET template_fields == TemplateFields(fields, 1)
        broken == {f.field_name : f \in {g \in template_fields : Malformed(g)}}
    IN  /\ report.op = "_apply_template_extraction" =>
              /\ DOMAIN report.out = {f.field_name : f \in template_fields}
              /\ \A n \in broken : /\ report.out[n].value = None
                                   /\ report.out[n].confidence = 0
        /\ report.op = "process_document_with_template" =>
              \A n \in broken : n \notin DOMAIN report.out
        /\ (report.op = "generate_declaration_from_ocr" /\ report.arg = 1
              /\ template_fields # {}) =>
              /\ report.out.exc = None
              /\ \A n \in broken : n \notin DOMAIN report.out.extracted_data

\* C15: a report of generate_declaration_from_ocr has 0 <= filled_fields <=
\* total_fields, total_fields the number of fields of the template, and
\* completion_percentage the tenth of a percent nearest to
\* filled_fields / total_fields * 100.
C15_CompletionStatistics ==
    (report.op = "generate_declaration_from_ocr" /\ report.out.exc = None) =>
        LET st == report.out.statistics
            diff == st.completion_percentage * st.total_fields - st.filled_fields * 1000
        IN  /\ 0 <= st.filled_fields
            /\ st.filled_fields <= st.total_fields
            /\ st.total_fields = Cardinality(TemplateFields(fields, report.arg))
            /\ 2 * diff <= st.total_fields
            /\ 2 * diff >= 0 - st.total_fields

\* a report on two fields of different names, one filled and one not
C15_Witness ==
    /\ report.op = "generate_declaration_from_ocr"
    /\ report.out.exc = None
    /\ report.out.statistics.filled_fields = 1
    /\ report.out.statistics.total_fields = 2
    /\ report.out.statistics.completion_percentage = 500
    /\ Cardinality({f.field_name : f \in TemplateFields(fields, report.arg)}) = 2

\* C16: every confidence of a field result lies in [0.0, 1.0].
C16_ConfidenceBounds ==
    /\ report.op = "_extract_field_value" =>
          report.out.confidence >= 0 /\ report.out.confidence <= 10000
    /\ report.op = "_calculate_confidence" => report.out >= 0 /\ report.out <= 10000
    /\ report.op = "_apply_template_extraction" =>
          \A n \in DOMAIN report.out :
              report.out[n].confidence >= 0 /\ report.out[n].confidence <= 10000
    /\ (report.op = "generate_declaration_from_ocr" /\ report.out.exc = None) =>
          \A n \in DOMAIN report.out.confidence_scores :
              /\ report.out.confidence_scores[n] >= 0
              /\ report.out.confidence_scores[n] <= 10000

\* a value with a digit and a letter: every boost applies and the result is 1.0
C16_Witness ==
    /\ report.op = "_calculate_confidence"
    /\ report.arg = "TD 1"
    /\ report.out = 10000

\* a report without its time-stamped default fields
Timeless(op, out) ==
    IF op = "generate_declaration"
    THEN [edn_number |-> out.extracted_fields.edn_number,
          declaration_type |-> out.extracted_fields.declaration_type,
          td_type |-> out.extracted_fields.td_type]
    ELSE out

\* C17: generate_declaration_from_ocr and generate_declaration, called twice
\* on the same text and the same template fields, return reports that are
\* equal apart from the time-stamped default fields.  (as claimed)
C17_Deterministic ==
    report.op \in {"generate_declaration_from_ocr", "generate_declaration"} =>
        Timeless(report.op, report.out) = Timeless(report.op, report.again)

\* C21: enhance_extracted_data applied to its own result returns that result,
\* and every key of the map it is given is in the result with the value it
\* had.  (as claimed)
C21_EnhanceIdempotentAdditive ==
    report.op = "enhance_extracted_data" =>
        /\ report.again = report.out
        /\ \A k \in DOMAIN report.arg :
              k \in DOMAIN report.out /\ report.out[k] = report.arg[k]

\* C29: on a template without fields generate_declaration_from_ocr returns a
\* report with total_fields = 0, filled_fields = 0 and
\* completion_percentage = 0.0.  (as claimed)
C29_EmptyTemplateReport ==
    (/\ report.op = "generate_declaration_from_ocr"
     /\ TemplateFound(templates, report.arg)
     /\ TemplateFields(fields, report.arg) = {}) =>
        /\ report.out.exc = None
        /\ report.out.statistics.total_fields = 0
        /\ report.out.statistics.filled_fields = 0
        /\ report.out.statistics.completion_percentage = 0

\* the matches of a field's patterns on a text as <<pattern, position>>, in
\* the order the code visits them: patterns in list order, matches in text order
PatternHits(txt, mapping_info) ==
    {h \in (DOMAIN mapping_info.patterns) \X (DOMAIN txt) :
        PatternMatches(mapping_info.patterns[h[1]], txt[h[2]])}

Earlier(g, h) == g[1] < h[1] \/ (g[1] = h[1] /\ g[2] < h[2])

\* C30: among the candidates of highest confidence _extract_field_value
\* returns the one found first: the earliest match of the earliest pattern,
\* and an extractor's result only if no match reaches that confidence.
C30_TiesKeepFirst ==
    report.op = "_extract_field_value" =>
        LET mapping_info == field_mapping[report.arg]
            hits == PatternHits(text, mapping_info)
            found == {k \in DOMAIN mapping_info.extractors :
                        Extractor(mapping_info.extractors[k], text).value # None}
            confidences == {MatchConfidence(text, h[2]) : h \in hits}
                           \cup {Extractor(mapping_info.extractors[k], text).confidence :
                                    k \in found}
            highest == CHOOSE c \in confidences : \A d \in confidences : d <= c
            best_hits == {h \in hits : MatchConfidence(text, h[2]) = highest}
            first_hit == CHOOSE h \in best_hits : \A g \in best_hits : ~Earlier(g, h)
            best_found == {k \in found :
                             Extractor(mapping_info.extractors[k], text).confidence = highest}
            first_found == CHOOSE k \in best_found : \A j \in best_found : k <= j
        IN  IF confidences = {} THEN report.out = Candidate(None, 0)
            ELSE IF best_hits # {}
            THEN report.out = Candidate(text[first_hit[2]], highest)
            ELSE report.out = Extractor(mapping_info.extractors[first_found], text)

\* two matches of 0.7 for declaration_type, the match of the first pattern
\* standing later in the text than the match of the second: the first
\* pattern's match is returned
C30_Witness ==
    /\ report.op = "_extract_field_value"
    /\ report.arg = "declaration_type"
    /\ text = <<"TD 2", "GTD">>
    /\ report.out = Candidate("GTD", 7000)

(***************************************************************************)
(* Claims on the template table                                            *)
(***************************************************************************)
\* C9: in every committed state at most one template has is_active = true.
\* (as claimed; create_russian_template and the first commit of the two
\* other seed scripts add an active template beside the active one)
C9_AtMostOneActive == Cardinality(ActiveTemplates) <= 1

\* C10: when update_template(T, is_active = True) has returned successfully,
\* T is stored, T is active and every other template is inactive; if the
\* operation before it activated another template A, A is now inactive.
C10_SetActiveIsExclusive ==
    Activated(tplLast) # 0 =>
        /\ \E t \in templates : t.id = Activated(tplLast)
        /\ \A t \in templates : t.is_active <=> t.id = Activated(tplLast)
        /\ \A t \in templates :
              (tplPrevSet # 0 /\ tplPrevSet # Activated(tplLast) /\ t.id = tplPrevSet)
                 => ~t.is_active

\* C11: once a committed state has an active template, every later committed
\* state has one: no step takes the table from some active template to none.
\* (as claimed)
C11_NeverZeroActive ==
    [][ActiveTemplates # {} => ActiveTemplates' # {}]_vars

\* C12: update_template with an id that matches no template answers NotFound
\* and leaves every row of the template table as it was.
C12_UnknownIdNotFound ==
    [][(tplLast'.op = "update_template"
          /\ ~(\E t \in templates : t.id = tplLast'.id))
         => (~tplLast'.ok /\ templates' = templates)]_vars

\* set_active on an unknown id has answered NotFound while an active
\* template is stored
C12_Witness ==
    /\ tplLast.op = "update_template"
    /\ tplLast.is_active = "True"
    /\ ~tplLast.ok
    /\ \A t \in templates : t.id # tplLast.id
    /\ ActiveTemplates # {}

\* C20: every stored field row belongs to exactly one stored template.
C20_FieldsBelongToTemplates ==
    \A f \in fields : Cardinality({t \in templates : t.id = f.template_id}) = 1

\* delete_template has just deleted a template together with a field of it,
\* another template and its field staying
C20_Witness ==
    /\ tplLast.op = "delete_template"
    /\ tplLast.ok
    /\ tplLast.cascaded > 0
    /\ fields # {}

\* set_active(A) then set_active(B), A # B, both stored
C10_Witness ==
    /\ Activated(tplLast) # 0
    /\ tplPrevSet # 0
    /\ tplPrevSet # Activated(tplLast)
    /\ \E a, b \in templates : a.id = tplPrevSet /\ b.id = Activated(tplLast)

====
